---- MODULE Spec2Model ----
(***************************************************************************)
(* Number Discussion System: the computation-tree store and the request    *)
(* handlers of DiscussionController and OperationController.               *)
(*                                                                         *)
(* Every handler is an async function: between two awaited store calls     *)
(* other requests may run.  An action below is one handler segment: one    *)
(* awaited store call together with the synchronous code that follows it   *)
(* up to the next await (or the response).                                 *)
(***************************************************************************)
EXTENDS Integers, Sequences, FiniteSets, Bags, TLC

(***************************************************************************)
(* Bounds of the model.                                                    *)
(***************************************************************************)
MaxDiscussions == 2
MaxOperations == 2
MaxSiblingOperations == 3
MaxInFlight == 2

Users == {"u1", "u2"}

(***************************************************************************)
(* Numbers.  A JavaScript number is modelled as a normalised fraction      *)
(* <<n, d>> with d > 0; NaN is <<0, 0>>.  NoValue marks an absent field.   *)
(***************************************************************************)
NaN == <<0, 0>>
NoValue == <<1, 0>>

Abs(x) == IF x < 0 THEN 0 - x ELSE x

RECURSIVE Gcd(_, _)
Gcd(a, b) == IF b = 0 THEN a ELSE Gcd(b, a % b)

Norm(n, d) ==
    LET g == Gcd(Abs(n), Abs(d))
        s == IF d < 0 THEN 0 - 1 ELSE 1
    IN  IF d = 0 THEN NaN ELSE <<(s * n) \div g, (s * d) \div g>>

Num(n) == <<n, 1>>

IsNaN(v) == v = NaN

\* JavaScript's === and !== on numbers: NaN is not equal to itself.
StrictEq(a, b) == ~IsNaN(a) /\ ~IsNaN(b) /\ a = b

(***************************************************************************)
(* Request body values.  A JSON body field is absent (undefined), null, a  *)
(* number or a string of characters.                                       *)
(***************************************************************************)
RawUndefined == [t |-> "undefined", num |-> NoValue, str |-> <<>>]
RawNull == [t |-> "null", num |-> NoValue, str |-> <<>>]
RawNum(v) == [t |-> "number", num |-> v, str |-> <<>>]
RawStr(s) == [t |-> "string", num |-> NoValue, str |-> s]

Digits == {"0", "1", "2", "3", "4", "5", "6", "7", "8", "9"}

DigitVal(c) ==
    CASE c = "0" -> 0 [] c = "1" -> 1 [] c = "2" -> 2 [] c = "3" -> 3
      [] c = "4" -> 4 [] c = "5" -> 5 [] c = "6" -> 6 [] c = "7" -> 7
      [] c = "8" -> 8 [] c = "9" -> 9

\* First index >= i of s that holds no space.
RECURSIVE SkipSpaces(_, _)
SkipSpaces(s, i) ==
    IF i <= Len(s) /\ s[i] = " " THEN SkipSpaces(s, i + 1) ELSE i

\* First index >= i of s that holds no digit.
RECURSIVE DigitsEnd(_, _)
DigitsEnd(s, i) ==
    IF i <= Len(s) /\ s[i] \in Digits THEN DigitsEnd(s, i + 1) ELSE i

\* The decimal value of the digits s[i] .. s[j-1], after the prefix acc.
RECURSIVE DigitsValue(_, _, _, _)
DigitsValue(s, i, j, acc) ==
    IF i >= j THEN acc ELSE DigitsValue(s, i + 1, j, 10 * acc + DigitVal(s[i]))

RECURSIVE Pow10(_)
Pow10(k) == IF k = 0 THEN 1 ELSE 10 * Pow10(k - 1)

\* parseFloat on a string: leading blanks are skipped, then the longest
\* prefix of the form [+-] digits [. digits] is converted; anything after
\* it is ignored, and NaN is returned when no digit is found.
ParseFloatString(s) ==
    LET a == SkipSpaces(s, 1)
        signed == a <= Len(s) /\ s[a] \in {"-", "+"}
        neg == signed /\ s[a] = "-"
        b == IF signed THEN a + 1 ELSE a
        c == DigitsEnd(s, b)
        dot == c <= Len(s) /\ s[c] = "."
        e == IF dot THEN DigitsEnd(s, c + 1) ELSE c
        fracLen == IF dot THEN e - (c + 1) ELSE 0
        intPart == DigitsValue(s, b, c, 0)
        mag == IF dot THEN DigitsValue(s, c + 1, e, intPart) ELSE intPart
    IN  IF c = b /\ fracLen = 0
        THEN NaN
        ELSE Norm(IF neg THEN 0 - mag ELSE mag, Pow10(fracLen))

\* parseFloat(x): the argument is converted to a string first, so a number
\* is returned as it is and undefined/null give NaN.
ParseFloat(raw) ==
    CASE raw.t = "number" -> raw.num
      [] raw.t = "string" -> ParseFloatString(raw.str)
      [] OTHER -> NaN

(***************************************************************************)
(* The Result Computation Engine.                                          *)
(***************************************************************************)
OperationTypes == {"ADD", "SUBTRACT", "MULTIPLY", "DIVIDE"}

Plus(a, b) ==
    IF IsNaN(a) \/ IsNaN(b) THEN NaN ELSE Norm(a[1] * b[2] + b[1] * a[2], a[2] * b[2])

Minus(a, b) ==
    IF IsNaN(a) \/ IsNaN(b) THEN NaN ELSE Norm(a[1] * b[2] - b[1] * a[2], a[2] * b[2])

Times(a, b) ==
    IF IsNaN(a) \/ IsNaN(b) THEN NaN ELSE Norm(a[1] * b[1], a[2] * b[2])

\* a / b for b other than zero.
Over(a, b) ==
    IF IsNaN(a) \/ IsNaN(b) THEN NaN ELSE Norm(a[1] * b[2], a[2] * b[1])

Returned(v) == [threw |-> FALSE, value |-> v, message |-> ""]
Thrown(m) == [threw |-> TRUE, value |-> NoValue, message |-> m]

\* computeResult with the operands of SUBTRACT exchanged.
computeResultReversed(previousValue, operation, operand) ==
    CASE operation = "ADD" -> Returned(Plus(previousValue, operand))
      [] operation = "SUBTRACT" -> Returned(Minus(operand, previousValue))
      [] operation = "MULTIPLY" -> Returned(Times(previousValue, operand))
      [] operation = "DIVIDE" ->
            IF StrictEq(operand, Num(0))
            THEN Thrown("Division by zero is not allowed")
            ELSE Returned(Over(previousValue, operand))
      [] OTHER -> Thrown("Invalid operation type")

computeResult(previousValue, operation, operand) ==
    CASE operation = "ADD" -> Returned(Plus(previousValue, operand))
      [] operation = "SUBTRACT" -> Returned(Minus(previousValue, operand))
      [] operation = "MULTIPLY" -> Returned(Times(previousValue, operand))
      [] operation = "DIVIDE" ->
            IF StrictEq(operand, Num(0))
            THEN Thrown("Division by zero is not allowed")
            ELSE Returned(Over(previousValue, operand))
      [] OTHER -> Thrown("Invalid operation type")

(***************************************************************************)
(* State.                                                                  *)
(*   discussions  the Discussion table, in creation order; a discussion's  *)
(*                id is its index                                          *)
(*   operations   the Operation table, in creation order; an operation's   *)
(*                id is its index, parentId 0 is null                      *)
(*   inflight     the handler invocations suspended at an await            *)
(*   sent         the response sent by the latest step, NoResp when that   *)
(*                step suspended at an await instead of answering          *)
(*   createdAt    the createdAt column of the two tables, in milliseconds: *)
(*                createdAt.discussions[i] and createdAt.operations[i]     *)
(***************************************************************************)
VARIABLES discussions, operations, inflight, sent, createdAt

vars == <<discussions, operations, inflight, sent, createdAt>>

NoCtx ==
    [pc |-> "none", userId |-> "", id |-> 0, parentId |-> 0,
     operationType |-> "", value |-> NoValue, result |-> NoValue]

\* A response: its status, its error message, the id and the number of the
\* row it carries, and the ids of the rows of a list, in the order sent.
NoResp ==
    [handler |-> "", status |-> 0, error |-> "", id |-> 0, value |-> NoValue,
     rows |-> <<>>]

Json(h, st, i, v) ==
    [handler |-> h, status |-> st, error |-> "", id |-> i, value |-> v, rows |-> <<>>]
Error(h, st, m) ==
    [handler |-> h, status |-> st, error |-> m, id |-> 0, value |-> NoValue,
     rows |-> <<>>]
Taken(h, m, i, v) ==
    [handler |-> h, status |-> 409, error |-> m, id |-> i, value |-> v, rows |-> <<>>]
List(h, i, r) ==
    [handler |-> h, status |-> 200, error |-> "", id |-> i, value |-> NoValue,
     rows |-> r]

\* What a handler segment does: it answers the request, or suspends at the
\* next await, and leaves the tables as ds and ops.
Reply(r) == [ctx |-> NoCtx, resp |-> r, discussions |-> discussions, operations |-> operations]
Await(c) == [ctx |-> c, resp |-> NoResp, discussions |-> discussions, operations |-> operations]
Commit(r, ds, ops) == [ctx |-> NoCtx, resp |-> r, discussions |-> ds, operations |-> ops]

DiscussionIds == 1 .. Len(discussions)
OperationIds == 1 .. Len(operations)

(***************************************************************************)
(* middleware/auth.ts.  A request carries no bearer token, a token that    *)
(* jwt.verify refuses, or a token that verifies and yields the id and the  *)
(* role of its payload ("" is a payload without a role).                   *)
(***************************************************************************)
NoToken == [token |-> "none", id |-> "", role |-> ""]
BadToken == [token |-> "invalid", id |-> "", role |-> ""]
Bearer(id, role) == [token |-> "valid", id |-> id, role |-> role]

\* The token of the registered user u.
Registered(u) == Bearer(u, "Registered")

\* authenticate: the response it sends, or NoResp when it calls next().
authenticate(h, k) ==
    IF k.token = "none"
    THEN Error(h, 401, "No token provided")
    ELSE IF k.token = "invalid"
    THEN Error(h, 401, "Invalid or expired token")
    ELSE NoResp

\* A role check that lets every verified caller through.
requireRegisteredUserAnyRole(h, k) == NoResp

\* requireRegisteredUser, on the userRole that authenticate attached.
requireRegisteredUser(h, k) ==
    IF k.role = "" \/ k.role = "Guest"
    THEN Error(h, 403, "Access denied. Only registered users can perform this action.")
    ELSE NoResp

\* router.post / router.patch with authenticate, requireRegisteredUser and
\* then the controller: the first middleware that answers ends the request.
Guarded(h, k, controller) ==
    IF authenticate(h, k) # NoResp
    THEN Reply(authenticate(h, k))
    ELSE IF requireRegisteredUser(h, k) # NoResp
    THEN Reply(requireRegisteredUser(h, k))
    ELSE controller

(***************************************************************************)
(* The storage client (Prisma) and the database.                           *)
(***************************************************************************)
\* The client sends its arguments as JSON, where NaN becomes null, and a
\* null for a required Float column or filter fails the call.
RejectsNumber(v) == IsNaN(v)

\* A lookup that finds no row.
findByStartingNumberMissing(startingNumber) == 0

\* prisma.discussion.findUnique({ where: { startingNumber } }): the id of
\* the row, or 0 for null.  startingNumber is a unique column, so at most
\* one row matches.
findByStartingNumber(startingNumber) ==
    IF \E i \in DiscussionIds : discussions[i].startingNumber = startingNumber
    THEN CHOOSE i \in DiscussionIds : discussions[i].startingNumber = startingNumber
    ELSE 0

\* A Discussion table without the unique index.
UniqueViolationNever(id, v) == FALSE

\* The unique index on Discussion.startingNumber: a write of v to row id
\* (0 for an insert) is refused when another row holds v.
UniqueViolation(id, v) ==
    \E i \in DiscussionIds : i # id /\ discussions[i].startingNumber = v

(***************************************************************************)
(* DiscussionController.create, POST /api/discussions.                     *)
(***************************************************************************)
\* From the entry to the answer of findByStartingNumber.
DiscussionCreateCheck(userId, startingNumber) ==
    IF startingNumber.t \in {"undefined", "null"}
    THEN Reply(Error("discussion.create", 400, "startingNumber is required"))
    ELSE LET numberValue == ParseFloat(startingNumber)
             existing == findByStartingNumber(numberValue)
         IN  IF RejectsNumber(numberValue)
             THEN Reply(Error("discussion.create", 500, "invalid argument"))
             ELSE IF existing # 0
             THEN Reply(Taken("discussion.create", "This starting number is already taken",
                              existing, discussions[existing].startingNumber))
             ELSE Await([NoCtx EXCEPT !.pc = "discussion.create.insert",
                                      !.userId = userId, !.value = numberValue])

\* DiscussionRepository.create and the response.
DiscussionCreateInsert(c) ==
    IF RejectsNumber(c.value)
    THEN Reply(Error("discussion.create", 500, "invalid argument"))
    ELSE IF UniqueViolation(0, c.value)
    THEN Reply(Error("discussion.create", 500, "unique constraint failed"))
    ELSE Commit(Json("discussion.create", 201, Len(discussions) + 1, c.value),
                Append(discussions, [startingNumber |-> c.value, authorId |-> c.userId]),
                operations)

(***************************************************************************)
(* DiscussionController.update, PATCH /api/discussions/:id.                *)
(***************************************************************************)
\* DiscussionUpdateFind without the author check.
DiscussionUpdateFindAnyUser(userId, id, startingNumber) ==
    IF startingNumber.t \in {"undefined", "null"}
    THEN Reply(Error("discussion.update", 400, "startingNumber is required"))
    ELSE IF id \notin DiscussionIds
    THEN Reply(Error("discussion.update", 404, "Discussion not found"))
    ELSE LET numberValue == ParseFloat(startingNumber)
             c == [NoCtx EXCEPT !.userId = userId, !.id = id, !.value = numberValue]
         IN  IF ~StrictEq(numberValue, discussions[id].startingNumber)
             THEN Await([c EXCEPT !.pc = "discussion.update.check"])
             ELSE Await([c EXCEPT !.pc = "discussion.update.write"])

\* DiscussionUpdateFind that looks the value up even when it is the
\* discussion's own.
DiscussionUpdateFindAlwaysChecks(userId, id, startingNumber) ==
    IF startingNumber.t \in {"undefined", "null"}
    THEN Reply(Error("discussion.update", 400, "startingNumber is required"))
    ELSE IF id \notin DiscussionIds
    THEN Reply(Error("discussion.update", 404, "Discussion not found"))
    ELSE IF discussions[id].authorId # userId
    THEN Reply(Error("discussion.update", 403, "Not authorized to update this discussion"))
    ELSE Await([NoCtx EXCEPT !.pc = "discussion.update.check", !.userId = userId,
                             !.id = id, !.value = ParseFloat(startingNumber)])

\* An update that looks the value up, and answers 409, before it checks the
\* author.
DiscussionUpdateFindConflictFirst(userId, id, startingNumber) ==
    IF startingNumber.t \in {"undefined", "null"}
    THEN Reply(Error("discussion.update", 400, "startingNumber is required"))
    ELSE IF id \notin DiscussionIds
    THEN Reply(Error("discussion.update", 404, "Discussion not found"))
    ELSE LET numberValue == ParseFloat(startingNumber)
             existing == findByStartingNumber(numberValue)
             c == [NoCtx EXCEPT !.userId = userId, !.id = id, !.value = numberValue]
         IN  IF ~StrictEq(numberValue, discussions[id].startingNumber) /\ existing # 0
             THEN Reply(Taken("discussion.update",
                              "This starting number is already taken by another discussion",
                              existing, discussions[existing].startingNumber))
             ELSE IF discussions[id].authorId # userId
             THEN Reply(Error("discussion.update", 403,
                              "Not authorized to update this discussion"))
             ELSE IF ~StrictEq(numberValue, discussions[id].startingNumber)
             THEN Await([c EXCEPT !.pc = "discussion.update.check"])
             ELSE Await([c EXCEPT !.pc = "discussion.update.write"])

\* From the entry to the answer of findById, the author check and the
\* comparison with the current value.
DiscussionUpdateFind(userId, id, startingNumber) ==
    IF startingNumber.t \in {"undefined", "null"}
    THEN Reply(Error("discussion.update", 400, "startingNumber is required"))
    ELSE IF id \notin DiscussionIds
    THEN Reply(Error("discussion.update", 404, "Discussion not found"))
    ELSE IF discussions[id].authorId # userId
    THEN Reply(Error("discussion.update", 403, "Not authorized to update this discussion"))
    ELSE LET numberValue == ParseFloat(startingNumber)
             c == [NoCtx EXCEPT !.userId = userId, !.id = id, !.value = numberValue]
         IN  IF ~StrictEq(numberValue, discussions[id].startingNumber)
             THEN Await([c EXCEPT !.pc = "discussion.update.check"])
             ELSE Await([c EXCEPT !.pc = "discussion.update.write"])

\* findByStartingNumber and the 409 answer.
DiscussionUpdateCheck(c) ==
    LET existing == findByStartingNumber(c.value)
    IN  IF RejectsNumber(c.value)
        THEN Reply(Error("discussion.update", 500, "invalid argument"))
        ELSE IF existing # 0
        THEN Reply(Taken("discussion.update",
                         "This starting number is already taken by another discussion",
                         existing, discussions[existing].startingNumber))
        ELSE Await([c EXCEPT !.pc = "discussion.update.write"])

\* An update that also recomputes the results of the operations directly
\* under the root.
DiscussionUpdateWriteRecomputes(c) ==
    IF RejectsNumber(c.value)
    THEN Reply(Error("discussion.update", 500, "invalid argument"))
    ELSE IF c.id \notin DiscussionIds
    THEN Reply(Error("discussion.update", 500, "record to update not found"))
    ELSE IF UniqueViolation(c.id, c.value)
    THEN Reply(Error("discussion.update", 500, "unique constraint failed"))
    ELSE Commit(Json("discussion.update", 200, c.id, c.value),
                [discussions EXCEPT ![c.id].startingNumber = c.value],
                [o \in OperationIds |->
                    IF operations[o].discussionId = c.id /\ operations[o].parentId = 0
                    THEN [operations[o] EXCEPT !.result =
                             computeResult(c.value, operations[o].operationType,
                                           operations[o].operand).value]
                    ELSE operations[o]])

\* An update without its where clause: it writes every row.
DiscussionUpdateWriteEveryRow(c) ==
    IF RejectsNumber(c.value)
    THEN Reply(Error("discussion.update", 500, "invalid argument"))
    ELSE IF c.id \notin DiscussionIds
    THEN Reply(Error("discussion.update", 500, "record to update not found"))
    ELSE IF UniqueViolation(c.id, c.value)
    THEN Reply(Error("discussion.update", 500, "unique constraint failed"))
    ELSE Commit(Json("discussion.update", 200, c.id, c.value),
                [i \in DiscussionIds |-> [discussions[i] EXCEPT !.startingNumber = c.value]],
                operations)

\* DiscussionRepository.update and the response.
DiscussionUpdateWrite(c) ==
    IF RejectsNumber(c.value)
    THEN Reply(Error("discussion.update", 500, "invalid argument"))
    ELSE IF c.id \notin DiscussionIds
    THEN Reply(Error("discussion.update", 500, "record to update not found"))
    ELSE IF UniqueViolation(c.id, c.value)
    THEN Reply(Error("discussion.update", 500, "unique constraint failed"))
    ELSE Commit(Json("discussion.update", 200, c.id, c.value),
                [discussions EXCEPT ![c.id].startingNumber = c.value],
                operations)

(***************************************************************************)
(* OperationController.create, POST /api/operations.                       *)
(***************************************************************************)
\* computeResult on the previous value, up to the call of
\* OperationRepository.create.
OperationCreateCompute(c, previousValue) ==
    LET r == computeResult(previousValue, c.operationType, c.value)
    IN  IF r.threw
        THEN Reply(Error("operation.create", 500, r.message))
        ELSE Await([c EXCEPT !.pc = "operation.create.insert", !.result = r.value])

\* From the entry to the answer of DiscussionRepository.findById; without a
\* parentId the previous value is the startingNumber just read.
\* discussionId 0, parentId 0 and operationType "" are absent fields.
OperationCreateFind(userId, discussionId, parentId, operationType, operand) ==
    IF discussionId = 0 \/ operationType = "" \/ operand.t \in {"undefined", "null"}
    THEN Reply(Error("operation.create", 400,
                     "discussionId, operationType, and operand are required"))
    ELSE IF operationType \notin {"ADD", "SUBTRACT", "MULTIPLY", "DIVIDE"}
    THEN Reply(Error("operation.create", 400,
                     "operationType must be ADD, SUBTRACT, MULTIPLY, or DIVIDE"))
    ELSE IF discussionId \notin DiscussionIds
    THEN Reply(Error("operation.create", 404, "Discussion not found"))
    ELSE LET c == [NoCtx EXCEPT !.userId = userId, !.id = discussionId,
                                !.parentId = parentId, !.operationType = operationType,
                                !.value = ParseFloat(operand)]
         IN  IF parentId # 0
             THEN Await([c EXCEPT !.pc = "operation.create.parent"])
             ELSE OperationCreateCompute(c, discussions[discussionId].startingNumber)

\* OperationCreateParent that takes a missing parent for the root.
OperationCreateParentMissingAsRoot(c) ==
    IF c.parentId \notin OperationIds
    THEN OperationCreateCompute(c, discussions[c.id].startingNumber)
    ELSE IF operations[c.parentId].discussionId # c.id
    THEN Reply(Error("operation.create", 400,
                     "Parent operation does not belong to this discussion"))
    ELSE OperationCreateCompute(c, operations[c.parentId].result)

\* OperationCreateParent without the check of the parent's discussion.
OperationCreateParentAnyDiscussion(c) ==
    IF c.parentId \notin OperationIds
    THEN Reply(Error("operation.create", 404, "Parent operation not found"))
    ELSE OperationCreateCompute(c, operations[c.parentId].result)

\* OperationRepository.findById(parentId) and the checks on the parent.
OperationCreateParent(c) ==
    IF c.parentId \notin OperationIds
    THEN Reply(Error("operation.create", 404, "Parent operation not found"))
    ELSE IF operations[c.parentId].discussionId # c.id
    THEN Reply(Error("operation.create", 400,
                     "Parent operation does not belong to this discussion"))
    ELSE OperationCreateCompute(c, operations[c.parentId].result)

\* An insert that stores the new row's own id as the id of its parent.
OperationCreateInsertOwnParent(c) ==
    IF RejectsNumber(c.value) \/ RejectsNumber(c.result)
    THEN Reply(Error("operation.create", 500, "invalid argument"))
    ELSE IF c.id \notin DiscussionIds \/ (c.parentId # 0 /\ c.parentId \notin OperationIds)
    THEN Reply(Error("operation.create", 500, "foreign key constraint failed"))
    ELSE Commit(Json("operation.create", 201, Len(operations) + 1, c.result),
                discussions,
                Append(operations,
                       [discussionId |-> c.id,
                        parentId |-> IF c.parentId = 0 THEN 0 ELSE Len(operations) + 1,
                        operationType |-> c.operationType, operand |-> c.value,
                        result |-> c.result, authorId |-> c.userId]))

\* An insert that refuses a second operation under the same parent (or
\* root) of a discussion.
OperationCreateInsertOnlyChild(c) ==
    IF RejectsNumber(c.value) \/ RejectsNumber(c.result)
    THEN Reply(Error("operation.create", 500, "invalid argument"))
    ELSE IF c.id \notin DiscussionIds \/ (c.parentId # 0 /\ c.parentId \notin OperationIds)
    THEN Reply(Error("operation.create", 500, "foreign key constraint failed"))
    ELSE IF \E o \in OperationIds :
               operations[o].discussionId = c.id /\ operations[o].parentId = c.parentId
    THEN Reply(Error("operation.create", 500, "unique constraint failed"))
    ELSE Commit(Json("operation.create", 201, Len(operations) + 1, c.result),
                discussions,
                Append(operations,
                       [discussionId |-> c.id, parentId |-> c.parentId,
                        operationType |-> c.operationType, operand |-> c.value,
                        result |-> c.result, authorId |-> c.userId]))

\* OperationRepository.create and the response.  The foreign keys of
\* Operation refuse a row whose discussion or parent does not exist.
OperationCreateInsert(c) ==
    IF RejectsNumber(c.value) \/ RejectsNumber(c.result)
    THEN Reply(Error("operation.create", 500, "invalid argument"))
    ELSE IF c.id \notin DiscussionIds \/ (c.parentId # 0 /\ c.parentId \notin OperationIds)
    THEN Reply(Error("operation.create", 500, "foreign key constraint failed"))
    ELSE Commit(Json("operation.create", 201, Len(operations) + 1, c.result),
                discussions,
                Append(operations,
                       [discussionId |-> c.id, parentId |-> c.parentId,
                        operationType |-> c.operationType, operand |-> c.value,
                        result |-> c.result, authorId |-> c.userId]))

(***************************************************************************)
(* OperationModel.getOperationChain: the ids of the path from the first    *)
(* operation under the root down to operationId.                           *)
(***************************************************************************)
RECURSIVE getOperationChainFrom(_, _)
getOperationChainFrom(currentOperation, chain) ==
    IF currentOperation \notin OperationIds
    THEN chain
    ELSE LET unshifted == <<currentOperation>> \o chain
         IN  IF operations[currentOperation].parentId = 0
             THEN unshifted
             ELSE getOperationChainFrom(operations[currentOperation].parentId, unshifted)

\* A chain built with push instead of unshift: it starts at operationId.
getOperationChainPushed(operationId) ==
    LET chain == getOperationChainFrom(operationId, <<>>)
    IN  [k \in 1 .. Len(chain) |-> chain[Len(chain) + 1 - k]]

getOperationChain(operationId) == getOperationChainFrom(operationId, <<>>)

(***************************************************************************)
(* Queries.  orderBy: { createdAt } is the only sort key of every list, so *)
(* the database returns rows of equal createdAt in an order of its choice: *)
(* a query is the set of the lists it may return.                          *)
(***************************************************************************)
\* The lists of the rows ids, each once, with stamps never decreasing.
Ascending(ids, stamps) ==
    {r \in [1 .. Cardinality(ids) -> ids] :
        /\ \A i, j \in DOMAIN r : i # j => r[i] # r[j]
        /\ \A i, j \in DOMAIN r : i < j => stamps[r[i]] <= stamps[r[j]]}

\* The same with stamps never increasing.
Descending(ids, stamps) ==
    {r \in [1 .. Cardinality(ids) -> ids] :
        /\ \A i, j \in DOMAIN r : i # j => r[i] # r[j]
        /\ \A i, j \in DOMAIN r : i < j => stamps[r[i]] >= stamps[r[j]]}

\* DiscussionRepository.findAll, newest first.
findAll == Descending(DiscussionIds, createdAt.discussions)

\* The operations relation of a discussion, oldest first.
OperationsOf(discussionId) ==
    Ascending({o \in OperationIds : operations[o].discussionId = discussionId},
              createdAt.operations)

\* OperationRepository.findByDiscussion.
findByDiscussion(discussionId) == OperationsOf(discussionId)

\* A getChildren that lists by the discussion of the operation.
getChildrenOfDiscussion(operationId) ==
    IF operationId \in OperationIds
    THEN OperationsOf(operations[operationId].discussionId)
    ELSE {<<>>}

\* OperationModel.getChildren.
getChildren(operationId) ==
    Ascending({o \in OperationIds : operations[o].parentId = operationId},
              createdAt.operations)

\* DiscussionController.getAll, GET /api/discussions.
DiscussionGetAll == {List("discussion.getAll", 0, r) : r \in findAll}

\* DiscussionController.getById, GET /api/discussions/:id.
DiscussionGetById(id) ==
    IF id \notin DiscussionIds
    THEN {Error("discussion.getById", 404, "Discussion not found")}
    ELSE {[Json("discussion.getById", 200, id, discussions[id].startingNumber)
              EXCEPT !.rows = r] : r \in OperationsOf(id)}

\* OperationController.getByDiscussion, GET /api/operations/discussion/:id.
OperationGetByDiscussion(discussionId) ==
    {List("operation.getByDiscussion", discussionId, r) :
        r \in findByDiscussion(discussionId)}

\* OperationController.getById, GET /api/operations/:id.
OperationGetById(id) ==
    IF id \notin OperationIds
    THEN {Error("operation.getById", 404, "Operation not found")}
    ELSE {Json("operation.getById", 200, id, operations[id].result)}

(***************************************************************************)
(* Requests.                                                               *)
(***************************************************************************)
StartingNumberInputs ==
    {RawUndefined, RawNum(Num(5)), RawNum(Num(42)), RawStr(<<"4", "2">>),
     RawStr(<<"5", "x">>), RawStr(<<"x">>)}

NumericInputs == {RawNum(Num(5)), RawNum(Num(42))}

\* The callers: the registered users, a guest, a verified token without a
\* role, and requests without a token or with one that does not verify.
Callers ==
    {Registered(u) : u \in Users}
        \cup {Bearer("g1", "Guest"), Bearer("n1", ""), NoToken, BadToken}

\* The operationType and operand of a request body.
OperationInputs ==
    {[operationType |-> "ADD", operand |-> RawNum(Num(10))],
     [operationType |-> "SUBTRACT", operand |-> RawNum(Num(2))],
     [operationType |-> "MULTIPLY", operand |-> RawNum(Num(2))],
     [operationType |-> "DIVIDE", operand |-> RawNum(Num(7))],
     [operationType |-> "DIVIDE", operand |-> RawNum(Num(0))],
     [operationType |-> "ADD", operand |-> RawStr(<<"x">>)],
     [operationType |-> "ADD", operand |-> RawUndefined],
     [operationType |-> "POWER", operand |-> RawNum(Num(2))],
     [operationType |-> "", operand |-> RawNum(Num(2))]}

\* The segment answered or suspended: the invocation old (NoCtx for a new
\* request) leaves the suspended set, the new context (if any) enters it.
Step(old, out) ==
    /\ discussions' = out.discussions
    /\ operations' = out.operations
    /\ inflight' = (IF old = NoCtx THEN inflight ELSE inflight (-) SetToBag({old}))
                   (+) (IF out.ctx = NoCtx THEN EmptyBag ELSE SetToBag({out.ctx}))
    /\ sent' = out.resp

\* @default(now()) on an insert: the row that out appended is stamped ms
\* milliseconds after the newest row of its table; a segment that appended
\* nothing stamps nothing.
StampedRows(stamps, rows, ms) ==
    IF Len(rows) = Len(stamps)
    THEN stamps
    ELSE Append(stamps, IF stamps = <<>> THEN 1 ELSE stamps[Len(stamps)] + ms)

Stamped(out, ms) ==
    [discussions |-> StampedRows(createdAt.discussions, out.discussions, ms),
     operations |-> StampedRows(createdAt.operations, out.operations, ms)]

Suspended(pc) == {c \in BagToSet(inflight) : c.pc = pc}

\* The number of suspended invocations at one of the positions pcs.
Creating(pcs) ==
    BagCardinality([c \in {x \in BagToSet(inflight) : x.pc \in pcs} |-> inflight[c]])

\* Admission of requests: at most MaxInFlight invocations are suspended at a
\* time, and a request that may add a row is taken only while the rows and
\* the suspended creations together leave room in the table.
Arrives == BagCardinality(inflight) < MaxInFlight

DiscussionRoom ==
    Len(discussions) + Creating({"discussion.create.insert"}) < MaxDiscussions

OperationRoom(rows) ==
    Len(operations) + Creating({"operation.create.parent", "operation.create.insert"})
        < rows

CreateDiscussion(callers, inputs) ==
    \E k \in callers, raw \in inputs :
        LET out == Guarded("discussion.create", k, DiscussionCreateCheck(k.id, raw))
        IN  /\ Arrives
            /\ out.ctx = NoCtx \/ DiscussionRoom
            /\ Step(NoCtx, out)
            /\ UNCHANGED createdAt

CreateDiscussionInsert(elapsed) ==
    \E c \in Suspended("discussion.create.insert") :
        LET out == DiscussionCreateInsert(c)
        IN  /\ Step(c, out)
            /\ \E ms \in elapsed : createdAt' = Stamped(out, ms)

UpdateDiscussion(callers, inputs) ==
    \E k \in callers, id \in 1 .. MaxDiscussions, raw \in inputs :
        /\ Arrives
        /\ Step(NoCtx, Guarded("discussion.update", k, DiscussionUpdateFind(k.id, id, raw)))
        /\ UNCHANGED createdAt

UpdateDiscussionCheck ==
    \E c \in Suspended("discussion.update.check") :
        /\ Step(c, DiscussionUpdateCheck(c))
        /\ UNCHANGED createdAt

UpdateDiscussionWrite ==
    \E c \in Suspended("discussion.update.write") :
        /\ Step(c, DiscussionUpdateWrite(c))
        /\ UNCHANGED createdAt

CreateOperation(callers, inputs, rows) ==
    \E k \in callers, d \in 0 .. MaxDiscussions, p \in 0 .. rows,
       b \in inputs :
        LET out == Guarded("operation.create", k,
                           OperationCreateFind(k.id, d, p, b.operationType, b.operand))
        IN  /\ Arrives
            /\ out.ctx = NoCtx \/ OperationRoom(rows)
            /\ Step(NoCtx, out)
            /\ UNCHANGED createdAt

CreateOperationParent ==
    \E c \in Suspended("operation.create.parent") :
        /\ Step(c, OperationCreateParent(c))
        /\ UNCHANGED createdAt

CreateOperationInsert(elapsed) ==
    \E c \in Suspended("operation.create.insert") :
        LET out == OperationCreateInsert(c)
        IN  /\ Step(c, out)
            /\ \E ms \in elapsed : createdAt' = Stamped(out, ms)

\* A read: the query and the answer, nothing is written.
Read(answers) ==
    \E r \in answers :
        /\ sent' = r
        /\ UNCHANGED <<discussions, operations, inflight, createdAt>>

GetDiscussions == Read(DiscussionGetAll)

GetDiscussion == \E id \in 1 .. MaxDiscussions : Read(DiscussionGetById(id))

GetOperationsByDiscussion ==
    \E d \in 1 .. MaxDiscussions : Read(OperationGetByDiscussion(d))

GetOperation == \E id \in 1 .. MaxOperations : Read(OperationGetById(id))

\* A call of OperationModel.getChildren: it returns the list.
GetChildren ==
    \E id \in 1 .. MaxOperations :
        Read({List("operation.getChildren", id, r) : r \in getChildren(id)})

\* A call of OperationModel.getOperationChain: it returns the chain.
GetOperationChain ==
    \E id \in 1 .. MaxOperations :
        Read({List("operation.getOperationChain", id, getOperationChain(id))})

Init ==
    /\ discussions = <<>>
    /\ operations = <<>>
    /\ inflight = EmptyBag
    /\ sent = NoResp
    /\ createdAt = [discussions |-> <<>>, operations |-> <<>>]

\* The clock ticks between two inserts.
Later == {1}

\* Two inserts may fall into the same millisecond.
SameOrLater == {0, 1}

NextD ==
    \/ CreateDiscussion(Callers, StartingNumberInputs)
    \/ CreateDiscussionInsert(Later)
    \/ UpdateDiscussion(Callers, StartingNumberInputs)
    \/ UpdateDiscussionCheck
    \/ UpdateDiscussionWrite

SpecD == Init /\ [][NextD]_vars

Next ==
    \/ CreateDiscussion({Registered("u1")}, NumericInputs)
    \/ CreateDiscussionInsert(Later)
    \/ UpdateDiscussion({Registered("u1")}, NumericInputs)
    \/ UpdateDiscussionCheck
    \/ UpdateDiscussionWrite
    \/ CreateOperation({Registered("u1")}, OperationInputs, MaxOperations)
    \/ CreateOperationParent
    \/ CreateOperationInsert(Later)

Spec == Init /\ [][Next]_vars

\* The operation types and operands of the requests of the reading clients.
PlainOperationInputs ==
    {[operationType |-> "ADD", operand |-> RawNum(Num(10))],
     [operationType |-> "MULTIPLY", operand |-> RawNum(Num(2))]}

\* Every route and the two model functions, with inserts that may share a
\* millisecond.
NextRead ==
    \/ CreateDiscussion({Registered("u1")}, NumericInputs)
    \/ CreateDiscussionInsert(SameOrLater)
    \/ UpdateDiscussion({Registered("u1")}, NumericInputs)
    \/ UpdateDiscussionCheck
    \/ UpdateDiscussionWrite
    \/ CreateOperation({Registered("u1")}, PlainOperationInputs, MaxOperations)
    \/ CreateOperationParent
    \/ CreateOperationInsert(SameOrLater)
    \/ GetDiscussions
    \/ GetDiscussion
    \/ GetOperationsByDiscussion
    \/ GetOperation
    \/ GetChildren
    \/ GetOperationChain

SpecRead == Init /\ [][NextRead]_vars

\* The mutating routes, called by a registered user, a guest, a verified
\* token without a role and callers without a verified token.
NextAuth ==
    \/ CreateDiscussion(Callers \ {Registered("u2")}, NumericInputs)
    \/ CreateDiscussionInsert(Later)
    \/ UpdateDiscussion(Callers \ {Registered("u2")}, NumericInputs)
    \/ UpdateDiscussionCheck
    \/ UpdateDiscussionWrite
    \/ CreateOperation(Callers \ {Registered("u2")}, PlainOperationInputs, MaxOperations)
    \/ CreateOperationParent
    \/ CreateOperationInsert(Later)

SpecAuth == Init /\ [][NextAuth]_vars

\* Create-discussion and create-operation requests only, with room for a
\* parent and two operations under it.
NextCreate ==
    \/ CreateDiscussion({Registered("u1")}, NumericInputs)
    \/ CreateDiscussionInsert(Later)
    \/ CreateOperation({Registered("u1")}, PlainOperationInputs, MaxSiblingOperations)
    \/ CreateOperationParent
    \/ CreateOperationInsert(Later)

SpecCreate == Init /\ [][NextCreate]_vars

(***************************************************************************)
(* Properties.                                                             *)
(***************************************************************************)
\* The error kind a response stands for.
ErrorKind(r) ==
    CASE r.status \in {200, 201} -> "None"
      [] r.status = 409 -> "Conflict"
      [] r.status = 404 -> "NotFound"
      [] r.status = 401 -> "Unauthorized"
      [] r.status = 403 -> "Forbidden"
      [] r.status = 400 /\ r.error = "Parent operation does not belong to this discussion"
            -> "InvalidReference"
      [] r.status = 400 -> "BadRequest"
      [] OTHER -> "InternalError"

\* The request carries the field.
Present(raw) == raw.t \notin {"undefined", "null"}

\* The segment answered and wrote nothing.
Refused(out, kind) ==
    /\ out.ctx = NoCtx
    /\ ErrorKind(out.resp) = kind
    /\ out.discussions = discussions
    /\ out.operations = operations

\* Another discussion than id holds the value v.
HeldByOther(id, v) ==
    \E i \in DiscussionIds : i # id /\ StrictEq(discussions[i].startingNumber, v)

\* C1: no two distinct discussions have the same startingNumber (I1), in
\* every state reached by create-discussion and update-discussion requests
\* under any interleaving of their segments.
C1_UniqueStartingNumber ==
    \A i, j \in DiscussionIds :
        i # j => discussions[i].startingNumber # discussions[j].startingNumber

\* Two discussions exist and an update has just succeeded.
C1_Witness ==
    /\ Len(discussions) = 2
    /\ sent.handler = "discussion.update"
    /\ sent.status = 200

\* C2: of racing create-discussion requests with one startingNumber, the
\* one that inserts after the value was taken (its check was stale) is
\* answered with Conflict and adds no discussion.
C2_StaleCheckConflicts ==
    \A c \in Suspended("discussion.create.insert") :
        HeldByOther(0, c.value) => Refused(DiscussionCreateInsert(c), "Conflict")

\* C7: a create-discussion request whose startingNumber an existing
\* discussion holds is answered with Conflict, with that discussion's id
\* and startingNumber as the hint, and the discussions are unchanged.
C7_TakenValueConflicts ==
    /\ \A u \in Users, raw \in StartingNumberInputs, i \in DiscussionIds :
          Present(raw) /\ StrictEq(discussions[i].startingNumber, ParseFloat(raw))
          => LET out == DiscussionCreateCheck(u, raw)
             IN  /\ Refused(out, "Conflict")
                 /\ out.resp.id = i
                 /\ out.resp.value = discussions[i].startingNumber
    /\ sent.handler = "discussion.create" /\ sent.status = 409
          => /\ sent.id \in DiscussionIds
             /\ sent.value = discussions[sent.id].startingNumber

\* A create-discussion request was just answered 409 with nothing in flight.
C7_Witness ==
    /\ sent.handler = "discussion.create"
    /\ sent.status = 409
    /\ sent.id \in DiscussionIds
    /\ inflight = EmptyBag

\* C8, first half: an update-discussion request by another user than the
\* author is answered with Forbidden and changes nothing, whatever value it
\* carries (the current one included).
C8_NonAuthorForbidden ==
    \A u \in Users, id \in DiscussionIds, raw \in StartingNumberInputs :
        Present(raw) /\ discussions[id].authorId # u
        => Refused(DiscussionUpdateFind(u, id, raw), "Forbidden")

\* C8, second half: a step that changes a discussion's startingNumber is
\* the write of an update request made by the discussion's author.
C8_ChangedByAuthor ==
    \A i \in DiscussionIds :
        discussions'[i].startingNumber # discussions[i].startingNumber
        => \E c \in Suspended("discussion.update.write") :
              /\ c.id = i
              /\ c.userId = discussions[i].authorId
              /\ inflight' = inflight (-) SetToBag({c})

\* C8: only the author updates a discussion.
C8_AuthorOnly == [](C8_NonAuthorForbidden) /\ [][C8_ChangedByAuthor]_vars

\* An update request was just answered 403.
C8_Witness ==
    /\ sent.handler = "discussion.update"
    /\ sent.status = 403
    /\ sent.error = "Not authorized to update this discussion"
    /\ discussions # <<>>

\* C9: an update-discussion request whose value another discussion holds is
\* answered with Conflict and changes nothing, both when its own lookup
\* finds the holder and when the value was taken after a lookup that found
\* it free.
C9_TakenValueConflicts ==
    /\ \A c \in Suspended("discussion.update.check") :
          HeldByOther(c.id, c.value) => Refused(DiscussionUpdateCheck(c), "Conflict")
    /\ \A c \in Suspended("discussion.update.write") :
          HeldByOther(c.id, c.value) => Refused(DiscussionUpdateWrite(c), "Conflict")

\* C10: an update-discussion request by the author with the discussion's
\* current startingNumber skips the lookup of the value, so it is never
\* answered with Conflict, and its write succeeds and leaves the discussions
\* as they are.
C10_SameValueSucceeds ==
    /\ \A u \in Users, id \in DiscussionIds, raw \in StartingNumberInputs :
          /\ Present(raw)
          /\ discussions[id].authorId = u
          /\ StrictEq(ParseFloat(raw), discussions[id].startingNumber)
          => LET out == DiscussionUpdateFind(u, id, raw)
             IN  /\ out.resp = NoResp
                 /\ out.ctx.pc = "discussion.update.write"
                 /\ out.ctx.id = id
                 /\ out.ctx.value = discussions[id].startingNumber
    /\ \A c \in Suspended("discussion.update.write") :
          c.id \in DiscussionIds /\ StrictEq(c.value, discussions[c.id].startingNumber)
          => LET out == DiscussionUpdateWrite(c)
             IN  /\ out.resp.status = 200
                 /\ out.resp.id = c.id
                 /\ out.discussions = discussions

\* The only invocation in flight is an update that carries the current
\* value and went from the author check straight to the write.
C10_Witness ==
    /\ sent = NoResp
    /\ BagCardinality(inflight) = 1
    /\ \E c \in Suspended("discussion.update.write") :
          StrictEq(c.value, discussions[c.id].startingNumber)

\* The value the chain gives after its first k operations, computed from
\* start with the Result Computation Engine.
RECURSIVE ChainValue(_, _, _)
ChainValue(chain, k, start) ==
    IF k = 0
    THEN start
    ELSE computeResult(ChainValue(chain, k - 1, start),
                       operations[chain[k]].operationType,
                       operations[chain[k]].operand).value

\* C3: for every stored operation o, computing along getOperationChain(o)
\* from the current startingNumber of o's discussion gives the stored
\* result of every operation of the chain.
C3_ChainReproducesResults ==
    \A o \in OperationIds :
        LET chain == getOperationChain(o)
            start == discussions[operations[o].discussionId].startingNumber
        IN  \A k \in 1 .. Len(chain) :
                operations[chain[k]].result = ChainValue(chain, k, start)

\* compute of the specification: + for ADD, - for SUBTRACT, * for MULTIPLY
\* and / for DIVIDE.
Arithmetic(previous, kind, operand) ==
    CASE kind = "ADD" -> Plus(previous, operand)
      [] kind = "SUBTRACT" -> Minus(previous, operand)
      [] kind = "MULTIPLY" -> Times(previous, operand)
      [] kind = "DIVIDE" -> Over(previous, operand)

\* The row a suspended create-operation is about to insert carries result.
Inserts(out, c, result) ==
    /\ out.resp.status = 201
    /\ out.resp.value = result
    /\ out.operations
         = Append(operations,
                  [discussionId |-> c.id, parentId |-> c.parentId,
                   operationType |-> c.operationType, operand |-> c.value,
                   result |-> result, authorId |-> c.userId])

\* C4: a create-operation request that succeeds stores
\* result = compute(previous, operationType, operand): previous is the
\* startingNumber read from the discussion when the request has no parentId
\* and the stored result of the parent otherwise.
C4_StoredResultIsComputed ==
    /\ \A d \in DiscussionIds, b \in OperationInputs :
          LET out == OperationCreateFind("u1", d, 0, b.operationType, b.operand)
          IN  out.ctx # NoCtx
              => /\ out.ctx.pc = "operation.create.insert"
                 /\ out.ctx.value = ParseFloat(b.operand)
                 /\ out.ctx.result
                      = Arithmetic(discussions[d].startingNumber, b.operationType,
                                   ParseFloat(b.operand))
    /\ \A c \in Suspended("operation.create.parent") :
          LET out == OperationCreateParent(c)
          IN  out.ctx # NoCtx
              => out.ctx = [c EXCEPT !.pc = "operation.create.insert",
                                     !.result = Arithmetic(operations[c.parentId].result,
                                                           c.operationType, c.value)]
    /\ \A c \in Suspended("operation.create.insert") :
          LET out == OperationCreateInsert(c)
          IN  out.resp.status = 201 => Inserts(out, c, c.result)
    /\ \A o \in OperationIds :
          operations[o].parentId # 0
          => operations[o].result
               = Arithmetic(operations[operations[o].parentId].result,
                            operations[o].operationType, operations[o].operand)

\* On a discussion that starts at 42, ADD 10 was stored with result 52 and
\* MULTIPLY 2 on that operation was just stored with result 104.
C4_Witness ==
    /\ Len(operations) = 2
    /\ discussions[operations[1].discussionId].startingNumber = Num(42)
    /\ operations[1].parentId = 0
    /\ operations[1].operationType = "ADD"
    /\ operations[1].operand = Num(10)
    /\ operations[1].result = Num(52)
    /\ operations[2].parentId = 1
    /\ operations[2].operationType = "MULTIPLY"
    /\ operations[2].operand = Num(2)
    /\ operations[2].result = Num(104)
    /\ sent.handler = "operation.create"
    /\ sent.status = 201
    /\ sent.value = Num(104)

\* C5: a create-operation request whose parentId names an operation of
\* another discussion is answered with InvalidReference and stores nothing,
\* and every stored operation with a parent belongs to its parent's
\* discussion (I3).
C5_ParentInSameDiscussion ==
    /\ \A d \in DiscussionIds, p \in OperationIds, b \in OperationInputs :
          /\ Present(b.operand)
          /\ b.operationType \in OperationTypes
          /\ operations[p].discussionId # d
          => LET out == OperationCreateFind("u1", d, p, b.operationType, b.operand)
             IN  /\ out.resp = NoResp
                 /\ out.ctx.pc = "operation.create.parent"
                 /\ out.ctx.id = d
                 /\ out.ctx.parentId = p
                 /\ out.operations = operations
    /\ \A c \in Suspended("operation.create.parent") :
          c.parentId \in OperationIds /\ operations[c.parentId].discussionId # c.id
          => Refused(OperationCreateParent(c), "InvalidReference")
    /\ \A o \in OperationIds :
          operations[o].parentId # 0
          => /\ operations[o].parentId \in OperationIds
             /\ operations[operations[o].parentId].discussionId
                  = operations[o].discussionId

\* A create-operation request was just refused for its parent, which is an
\* operation of another discussion.
C5_Witness ==
    /\ sent.handler = "operation.create"
    /\ ErrorKind(sent) = "InvalidReference"
    /\ Len(discussions) = 2
    /\ operations # <<>>

\* C6: a create-operation request with DIVIDE and operand 0 is answered
\* with the client error InvalidOperation and stores nothing, and no stored
\* DIVIDE operation has operand 0.
C6_DivideByZeroInvalidOperation ==
    /\ \A d \in DiscussionIds :
          LET out == OperationCreateFind("u1", d, 0, "DIVIDE", RawNum(Num(0)))
          IN  /\ out.ctx = NoCtx
              /\ out.resp.status \in 400 .. 499
              /\ out.resp.error = "Division by zero is not allowed"
              /\ out.operations = operations
    /\ \A c \in Suspended("operation.create.parent") :
          /\ c.operationType = "DIVIDE"
          /\ c.value = Num(0)
          /\ c.parentId \in OperationIds
          /\ operations[c.parentId].discussionId = c.id
          => LET out == OperationCreateParent(c)
             IN  /\ out.ctx = NoCtx
                 /\ out.resp.status \in 400 .. 499
                 /\ out.operations = operations
    /\ \A o \in OperationIds :
          operations[o].operationType = "DIVIDE" => operations[o].operand # Num(0)

\* C11: every step of every request (create discussion, update discussion,
\* create operation, the reads) leaves each stored operation's operand,
\* result, operationType, discussionId and parentId as they were; an update
\* of a discussion's startingNumber recomputes no stored result.
C11_OperationsNeverChange ==
    [][\A o \in OperationIds :
          /\ o \in DOMAIN operations'
          /\ operations'[o].operand = operations[o].operand
          /\ operations'[o].result = operations[o].result
          /\ operations'[o].operationType = operations[o].operationType
          /\ operations'[o].discussionId = operations[o].discussionId
          /\ operations'[o].parentId = operations[o].parentId]_vars

\* An update was just written to a discussion that has an operation directly
\* under its root, whose stored result is that of the former root value.
C11_Witness ==
    /\ sent.handler = "discussion.update"
    /\ sent.status = 200
    /\ \E o \in OperationIds :
          /\ operations[o].discussionId = sent.id
          /\ operations[o].parentId = 0
          /\ operations[o].result
                # computeResult(sent.value, operations[o].operationType,
                                operations[o].operand).value

\* chain is the parent path of the stored operation o: stored operations
\* only (never the root), the first without a parent, each later one the
\* child of the one before it, the last one o.
IsPathTo(chain, o) ==
    /\ chain # <<>>
    /\ \A k \in DOMAIN chain : chain[k] \in OperationIds
    /\ operations[chain[1]].parentId = 0
    /\ \A k \in 2 .. Len(chain) : operations[chain[k]].parentId = chain[k - 1]
    /\ chain[Len(chain)] = o

\* C12: for every stored operation o, getOperationChain(o) is the parent
\* path o1, ..., o in that order, and so is the chain a call returned.
C12_ChainIsParentPath ==
    /\ \A o \in OperationIds : IsPathTo(getOperationChain(o), o)
    /\ sent.handler = "operation.getOperationChain" /\ sent.id \in OperationIds
        => IsPathTo(sent.rows, sent.id)

\* A call just returned a chain of two operations.
C12_Witness ==
    /\ sent.handler = "operation.getOperationChain"
    /\ Len(sent.rows) = 2

\* C13: a call of getOperationChain with an id that no stored operation has
\* fails with NotFound; it does not return an empty chain.
C13_MissingOperationNotFound ==
    sent.handler = "operation.getOperationChain" /\ sent.id \notin OperationIds
    => /\ ErrorKind(sent) = "NotFound"
       /\ \A id \in 1 .. MaxOperations :
             id \notin OperationIds => getOperationChain(id) # <<>>

\* C14: a create-operation request whose discussionId names no discussion,
\* or whose parentId names no operation when the parent is looked up, is
\* answered with NotFound and stores nothing; every stored operation's
\* discussionId names a stored discussion (I2) and every parentId that is
\* not null names a stored operation.
C14_MissingReferenceNotFound ==
    /\ \A d \in 1 .. MaxDiscussions, p \in 0 .. MaxOperations, b \in OperationInputs :
          /\ Present(b.operand)
          /\ b.operationType \in OperationTypes
          /\ d \notin DiscussionIds
          => Refused(OperationCreateFind("u1", d, p, b.operationType, b.operand),
                     "NotFound")
    /\ \A d \in DiscussionIds, p \in 1 .. MaxOperations, b \in OperationInputs :
          /\ Present(b.operand)
          /\ b.operationType \in OperationTypes
          /\ p \notin OperationIds
          => LET out == OperationCreateFind("u1", d, p, b.operationType, b.operand)
             IN  /\ out.resp = NoResp
                 /\ out.ctx.pc = "operation.create.parent"
                 /\ out.ctx.parentId = p
                 /\ out.operations = operations
    /\ \A c \in Suspended("operation.create.parent") :
          c.parentId \notin OperationIds
          => Refused(OperationCreateParent(c), "NotFound")
    /\ \A o \in OperationIds :
          /\ operations[o].discussionId \in DiscussionIds
          /\ operations[o].parentId # 0 => operations[o].parentId \in OperationIds

\* A create-operation request was just refused because its parentId names no
\* operation, in a state that has discussions and operations.
C14_Witness ==
    /\ sent.handler = "operation.create"
    /\ sent.status = 404
    /\ sent.error = "Parent operation not found"
    /\ operations # <<>>

\* rows lists exactly the operations ids, each once, oldest first, and
\* operations of one creation timestamp by identity.
IsTotalListing(rows, ids) ==
    /\ {rows[k] : k \in DOMAIN rows} = ids
    /\ Len(rows) = Cardinality(ids)
    /\ \A i, j \in DOMAIN rows :
          i < j => \/ createdAt.operations[rows[i]] < createdAt.operations[rows[j]]
                   \/ /\ createdAt.operations[rows[i]] = createdAt.operations[rows[j]]
                      /\ rows[i] < rows[j]

\* C15: findByDiscussion(d) and getChildren(o) return exactly the stored
\* operations of d (of parent o), each once, in creation-time order with
\* ties ordered by identity, and the same list on every call.
C15_ListingsTotalAndStable ==
    /\ \A d \in 1 .. MaxDiscussions :
          /\ Cardinality(findByDiscussion(d)) = 1
          /\ \A rows \in findByDiscussion(d) :
                IsTotalListing(rows, {o \in OperationIds : operations[o].discussionId = d})
    /\ \A p \in 1 .. MaxOperations :
          /\ Cardinality(getChildren(p)) = 1
          /\ \A rows \in getChildren(p) :
                IsTotalListing(rows, {o \in OperationIds : operations[o].parentId = p})
    /\ sent.handler = "operation.getByDiscussion"
        => IsTotalListing(sent.rows,
                          {o \in OperationIds : operations[o].discussionId = sent.id})

\* The field is a string with a character that no number is written with.
NonNumeric(raw) ==
    /\ raw.t = "string"
    /\ \E k \in DOMAIN raw.str : raw.str[k] \notin Digits \cup {"+", "-", ".", " "}

\* C16: a create-discussion or update-discussion request with a non-numeric
\* startingNumber, and a create-operation request with a non-numeric operand
\* or an operationType that is none of ADD, SUBTRACT, MULTIPLY, DIVIDE, is
\* answered with BadRequest and writes nothing; no stored startingNumber,
\* operand or result is NaN.
C16_NonNumericBadRequest ==
    /\ \A raw \in StartingNumberInputs :
          NonNumeric(raw) => Refused(DiscussionCreateCheck("u1", raw), "BadRequest")
    /\ \A id \in DiscussionIds, raw \in StartingNumberInputs :
          NonNumeric(raw)
          => Refused(DiscussionUpdateFind(discussions[id].authorId, id, raw), "BadRequest")
    /\ \A d \in DiscussionIds, b \in OperationInputs :
          /\ b.operationType # ""
          /\ Present(b.operand)
          /\ NonNumeric(b.operand) \/ b.operationType \notin OperationTypes
          => Refused(OperationCreateFind("u1", d, 0, b.operationType, b.operand),
                     "BadRequest")
    /\ \A d \in DiscussionIds : ~IsNaN(discussions[d].startingNumber)
    /\ \A o \in OperationIds :
          ~IsNaN(operations[o].operand) /\ ~IsNaN(operations[o].result)

\* The middleware answered the request: no handler was entered, nothing was
\* written.
RejectedByMiddleware(out) ==
    /\ out.ctx = NoCtx
    /\ \/ /\ ErrorKind(out.resp) = "Unauthorized"
          /\ out.resp.error \in {"No token provided", "Invalid or expired token"}
       \/ /\ ErrorKind(out.resp) = "Forbidden"
          /\ out.resp.error
                = "Access denied. Only registered users can perform this action."
    /\ out.discussions = discussions
    /\ out.operations = operations

\* The ids of the callers with a verified token and a role other than Guest.
AuthenticatedNonGuests == {k.id : k \in {c \in Callers : c.token = "valid" /\ c.role # "Guest"}}

\* C17: a create-discussion, update-discussion or create-operation request
\* of a caller without a verified token or with role Guest is answered by
\* the middleware and changes nothing; the author of every stored
\* discussion and operation is an authenticated caller who is no guest.
C17_GuestsNeverWrite ==
    /\ \A k \in Callers :
          k.token # "valid" \/ k.role = "Guest"
          => /\ \A raw \in StartingNumberInputs :
                   RejectedByMiddleware(
                       Guarded("discussion.create", k, DiscussionCreateCheck(k.id, raw)))
             /\ \A id \in 1 .. MaxDiscussions, raw \in StartingNumberInputs :
                   RejectedByMiddleware(
                       Guarded("discussion.update", k, DiscussionUpdateFind(k.id, id, raw)))
             /\ \A d \in 0 .. MaxDiscussions, p \in 0 .. MaxOperations,
                   b \in OperationInputs :
                   RejectedByMiddleware(
                       Guarded("operation.create", k,
                               OperationCreateFind(k.id, d, p, b.operationType, b.operand)))
    /\ \A d \in DiscussionIds : discussions[d].authorId \in AuthenticatedNonGuests
    /\ \A o \in OperationIds : operations[o].authorId \in AuthenticatedNonGuests

\* A guest's create-operation request was just refused by the middleware in a
\* state that has operations.
C17_Witness ==
    /\ sent.handler = "operation.create"
    /\ sent.status = 403
    /\ sent.error = "Access denied. Only registered users can perform this action."
    /\ operations # <<>>

\* The loop of getOperationChain, started at the stored operation current,
\* reaches an operation without a parent after at most steps lookups of a
\* parent.
RECURSIVE ReachesFirstWithin(_, _)
ReachesFirstWithin(current, steps) ==
    IF current \notin OperationIds
    THEN TRUE
    ELSE IF operations[current].parentId = 0
    THEN TRUE
    ELSE IF steps = 0
    THEN FALSE
    ELSE ReachesFirstWithin(operations[current].parentId, steps - 1)

\* C18: the parent of every stored operation was created before it, so the
\* parent relation has no cycle, and the loop of getOperationChain ends for
\* every stored operation after at most as many parent lookups as its
\* discussion has operations.
C18_ParentsAcyclic ==
    /\ \A o \in OperationIds : operations[o].parentId < o
    /\ \A o \in OperationIds :
          ReachesFirstWithin(
              o, Cardinality({q \in OperationIds :
                                 operations[q].discussionId = operations[o].discussionId}))

\* An operation was just stored under a parent.
C18_Witness ==
    /\ sent.handler = "operation.create"
    /\ sent.status = 201
    /\ sent.id \in OperationIds
    /\ operations[sent.id].parentId \in OperationIds

\* C19: a step that answers an update-discussion request with success has
\* changed nothing but the startingNumber of the discussion named: that
\* discussion keeps its identity, authorId and createdAt, and every other
\* discussion and every operation is as before.
C19_UpdateChangesOnlyStartingNumber ==
    [][sent'.handler = "discussion.update" /\ sent'.status = 200
       => /\ sent'.id \in DiscussionIds
          /\ DOMAIN discussions' = DOMAIN discussions
          /\ discussions'[sent'.id]
                = [discussions[sent'.id] EXCEPT !.startingNumber = sent'.value]
          /\ \A i \in DiscussionIds : i # sent'.id => discussions'[i] = discussions[i]
          /\ operations' = operations
          /\ createdAt' = createdAt]_vars

\* An update just gave one of two discussions a new startingNumber, with
\* operations stored.
C19_Witness ==
    /\ sent.handler = "discussion.update"
    /\ sent.status = 200
    /\ Len(discussions) = 2
    /\ operations # <<>>
    /\ \A i \in DiscussionIds \ {sent.id} : discussions[i].startingNumber # sent.value

\* The value an operation under parentId 0 of discussionId, or under the
\* operation parentId, is computed from.
PreviousValue(discussionId, parentId) ==
    IF parentId = 0
    THEN discussions[discussionId].startingNumber
    ELSE operations[parentId].result

\* C20: with create-operation requests interleaved in every way (and no
\* update requests), each request that has passed its lookups inserts its
\* row and is answered 201, whatever the others have stored meanwhile, and
\* its result is compute(the parent's result or the root value, its own
\* operationType, its own operand), as when it runs alone.
C20_SiblingsDoNotInterfere ==
    /\ \A c \in Suspended("operation.create.parent") :
          c.parentId \in OperationIds /\ operations[c.parentId].discussionId = c.id
          => LET out == OperationCreateParent(c)
             IN  /\ out.resp = NoResp
                 /\ out.ctx
                      = [c EXCEPT !.pc = "operation.create.insert",
                                  !.result = Arithmetic(operations[c.parentId].result,
                                                        c.operationType, c.value)]
    /\ \A c \in Suspended("operation.create.insert") :
          Inserts(OperationCreateInsert(c), c,
                  Arithmetic(PreviousValue(c.id, c.parentId), c.operationType, c.value))
    /\ \A o \in OperationIds :
          operations[o].result
            = Arithmetic(PreviousValue(operations[o].discussionId, operations[o].parentId),
                         operations[o].operationType, operations[o].operand)

\* An operation was just stored under a parent operation while another
\* request for the same parent is suspended before its insert.
C20_Witness ==
    /\ sent.handler = "operation.create"
    /\ sent.status = 201
    /\ sent.id \in OperationIds
    /\ operations[sent.id].parentId # 0
    /\ \E c \in Suspended("operation.create.insert") :
          /\ c.id = operations[sent.id].discussionId
          /\ c.parentId = operations[sent.id].parentId

\* C21: under every interleaving of create-operation and update-discussion
\* requests, a step that stores an operation without a parent stores
\* result = compute(the startingNumber its discussion has at that moment,
\* operationType, operand).
C21_CreateAtomicWithUpdate ==
    [][Len(operations') = Len(operations) + 1
       => LET o == operations'[Len(operations')]
          IN  o.parentId = 0
              => o.result = Arithmetic(discussions'[o.discussionId].startingNumber,
                                       o.operationType, o.operand)]_vars

\* C22: update-discussion checks NotFound, then Forbidden, then Conflict.
\* A request that names no discussion is answered NotFound; a request of a
\* user who is not the author of the discussion it names is answered
\* Forbidden whether or not another discussion holds the requested value;
\* whatever its body, it is never answered Conflict, its answer carries no
\* id and no startingNumber, and it never reaches the lookup of the value:
\* every update suspended at the lookup or the write is the author's.
C22_ForbiddenBeforeConflict ==
    /\ \A u \in Users, id \in 1 .. MaxDiscussions, raw \in StartingNumberInputs :
          Present(raw) /\ id \notin DiscussionIds
          => Refused(DiscussionUpdateFind(u, id, raw), "NotFound")
    /\ \A u \in Users, id \in DiscussionIds, raw \in StartingNumberInputs :
          discussions[id].authorId # u
          => LET out == DiscussionUpdateFind(u, id, raw)
             IN  /\ out.ctx = NoCtx
                 /\ ErrorKind(out.resp) # "Conflict"
                 /\ out.resp.id = 0
                 /\ out.resp.value = NoValue
                 /\ Present(raw) => Refused(out, "Forbidden")
    /\ \A c \in Suspended("discussion.update.check") \cup Suspended("discussion.update.write") :
          c.id \in DiscussionIds /\ discussions[c.id].authorId = c.userId

\* A user who is not the author was just answered 403 while each of the two
\* discussions, of different authors, holds a value the other does not.
C22_Witness ==
    /\ sent.handler = "discussion.update"
    /\ sent.error = "Not authorized to update this discussion"
    /\ sent.id = 0
    /\ Len(discussions) = 2
    /\ discussions[1].authorId # discussions[2].authorId

====
